---- MODULE Spec2Model ----
(***************************************************************************)
(* Model of the Client of @areumtecnologia/baileys: the connection         *)
(* lifecycle driven by the transport's 'connection.update' events          *)
(* (src/utils/generic-utils.js, class Client), the presence heartbeat,     *)
(* the contact cache (ContactHandler) and the messages.upsert pipeline.    *)
(*                                                                         *)
(* Every async handler is cut at its awaits of collaborator calls: one     *)
(* action runs a handler from one suspension point to the next, as the     *)
(* event loop does.  An await of an already settled promise resumes before *)
(* any transport event and is therefore not a cut.                         *)
(***************************************************************************)
EXTENDS Integers, Sequences, FiniteSets, TLC

\* ---------------------------------------------------------------- bounds
\* number of connect() calls (hence sockets) of one run
MaxConnects == 2

Conns == 1..MaxConnects

\* number of messages.upsert events of one run
MaxEnvelopes == 2

Envs == 1..MaxEnvelopes

\* number of pairing artifacts (qr) the transport delivers in one run
MaxQrs == 3

Qrs == 1..MaxQrs

\* number of saveMessage calls of one run
MaxSaves == 3

\* number of text fields of one payload that are non-empty at once
MaxTexts == 3

\* number of options of a poll, and of hashes a decrypted vote holds
MaxOptions == 2
MaxVotes == 2

\* chat ids: a user (@s.whatsapp.net) and a group (@g.us)
Chats == {"u1", "g1"}

\* keys of the message store: the chat ids and the key `undefined`
StoreKeys == Chats \cup {"undefined"}

\* ------------------------------------------------------ program constants
\* DisconnectReason.restartRequired / loggedOut / unavailableService, the
\* literal 408 of the pairing branch, and the status code Boom gives an
\* error without one (sock.end(undefined)).
RestartRequired == 515
LoggedOut == 401
UnavailableService == 503
PairingTimeout == 408
DefaultBoomStatus == 500

StatusCodes ==
  {RestartRequired, LoggedOut, UnavailableService, PairingTimeout,
   DefaultBoomStatus}

\* class DisconnectReasons
MANUAL_DISCONNECT == "manual_disconnect"
LOGGED_OUT == "logged_out"
PAIRING_FAILED == "pairing_failed"
CONNECTION_ERROR == "connection_error"

\* class ClientEvent (the values used as status)
INIT == "init"
PAIRING_CODE == "pairing_code"
CONNECTED == "connected"
DISCONNECTED == "disconnected"

VARIABLES
  restartOnClose,       \* options.restartOnClose
  status,               \* this.status
  connected,            \* this.connected
  manualDisconnect,     \* this.manualDisconnect
  sock,                 \* this.sock: 0 is null, k the socket made by connect() call k
  connPc,               \* per connect() call: where the call / its socket is
  connCause,            \* per connect() call: <<why, k>>, called by the close handler of socket k (0: by the application)
  presenceSetInterval,  \* this.presenceSetInterval: 0 is unset, k the interval armed by socket k's open
  timers,               \* the intervals armed and not cleared
  openPc,               \* per socket: position of its 'open' handler
  openEv,               \* per socket: events the 'open' handler emitted
  closeRec,             \* per socket: the handling of its 'close'
  qrCodeAttempts,       \* this.qrCodeAttempts (0: not set yet)
  qrPc,                 \* per pairing artifact (qr) the transport delivered: position of its handler
  pairEv,               \* the pairing_code events emitted, each with the status_change that follows it
  staleManual,          \* history: manualDisconnect is set, by a disconnect() call made before the application's latest connect() call
  storeHasSet,          \* whether this.store has a setMessage method
  store,                \* this.store: per key the ids of the stored messages
  contacts,             \* ContactHandler.contacts: the chat ids cached
  lookups,              \* per chat id: collaborator lookups issued by ContactHandler.normalize
  envs,                 \* per messages.upsert event: its first message and the position of its handler
  msgEvents,            \* the events the messages.upsert handlers emitted, in order
  saves,                \* the saveMessage calls made on a MessageStore, in order
  norm,                 \* the last MessageNormalizer.normalize call: its arguments, its collaborators' answers, its result
  delivery,             \* the last event emitted by the switch of the messages.upsert handler: the envelope, its delivery type and key.fromMe, the message carried
  op,                   \* the last call of a public handler operation and how it ended
  vote,                 \* the last poll vote resolved: the poll options, the decrypted hashes and the poll state returned
  cache,                \* ContactHandler.contacts: the Contact stored under each key
  dir,                  \* the last call on the contact directory: the operation, its argument, its result, the transport calls it made
  send,                 \* the last messages.sendMessage call: its position, the recipient lookup, whether sock.sendMessage was called and the status then, what it returned
  content               \* the last message payload classified: the payload, its type, body and media / location data

lifeVars ==
  <<restartOnClose, status, connected, manualDisconnect, sock, connPc,
    connCause, presenceSetInterval, timers, openPc, openEv, closeRec,
    qrCodeAttempts, qrPc, pairEv, staleManual>>

pairVars == <<qrCodeAttempts, qrPc, pairEv>>

msgVars == <<storeHasSet, store, contacts, lookups, envs, msgEvents, delivery>>

pureVars == <<saves, norm, op, content, vote, cache, dir, send>>

vars ==
  <<restartOnClose, status, connected, manualDisconnect, sock, connPc,
    connCause, presenceSetInterval, timers, openPc, openEv, closeRec,
    qrCodeAttempts, qrPc, pairEv, staleManual,
    storeHasSet, store, contacts, lookups, envs, msgEvents, delivery, saves,
    norm, op,
    content,
    vote,
    cache,
    dir,
    send>>

\* no message event was emitted yet
NoDelivery ==
  [env |-> 0, type |-> "", fromMe |-> FALSE,
   msg |-> [kind |-> "none", type |-> "", body |-> "", hasMedia |-> FALSE]]

NoClose ==
  [pc |-> "none", code |-> 0, manual |-> FALSE, statusType |-> "none",
   reason |-> "none", events |-> <<>>, purge |-> FALSE]

NoEnv == [pc |-> "none", chat |-> "none"]

NoLookups == [profile |-> 0, status |-> 0, picture |-> 0]

\* no normalize call and no handler operation made yet
NoNorm == [called |-> FALSE]

NoOp == [name |-> "none"]

NoPairing ==
  /\ staleManual = FALSE
  /\ qrCodeAttempts = 0
  /\ qrPc = [q \in Qrs |-> "none"]
  /\ pairEv = <<>>

\* a WhatsApp id: user part, whether it carries a device suffix (":5"), and
\* server; server "undefined" is the JavaScript undefined
Jid(user, device, server) == [user |-> user, device |-> device, server |-> server]

UndefinedJid == Jid("", FALSE, "undefined")

\* the keys ContactHandler.contacts is written under: contact.id of a
\* normalized contact
CacheKeys ==
  {Jid("u1", FALSE, "s.whatsapp.net"), Jid("g1", FALSE, "g.us"), UndefinedJid}

\* no Contact under a key; no directory call made yet
NoContact == [present |-> FALSE, id |-> UndefinedJid, data |-> 0]

NoDir ==
  [op |-> "none", arg |-> UndefinedJid, result |-> "none",
   contact |-> NoContact, transportCalls |-> 0, wasCached |-> FALSE,
   fresh |-> 0]

\* no sendMessage call made yet
NoSend ==
  [pc |-> "none", lookup |-> "none", issued |-> FALSE, statusAtSend |-> "none",
   returned |-> "none"]

NoCalls ==
  /\ saves = <<>>
  /\ norm = NoNorm
  /\ op = NoOp
  /\ content = [called |-> FALSE]
  /\ send = NoSend
  /\ dir = NoDir
  /\ cache = [k \in CacheKeys |-> NoContact]
  /\ vote = [called |-> FALSE]

\* Client constructor; the default store, MessageStore, has no setMessage
Init ==
  /\ restartOnClose \in BOOLEAN
  /\ status = DISCONNECTED
  /\ connected = FALSE
  /\ manualDisconnect = FALSE
  /\ sock = 0
  /\ connPc = [k \in Conns |-> "none"]
  /\ connCause = [k \in Conns |-> <<"none", 0>>]
  /\ presenceSetInterval = 0
  /\ timers = {}
  /\ openPc = [k \in Conns |-> "none"]
  /\ openEv = [k \in Conns |-> <<>>]
  /\ closeRec = [k \in Conns |-> NoClose]
  /\ storeHasSet = FALSE
  /\ store = [c \in StoreKeys |-> <<>>]
  /\ contacts = {}
  /\ lookups = [c \in Chats |-> NoLookups]
  /\ envs = [e \in Envs |-> NoEnv]
  /\ msgEvents = <<>>
  /\ delivery = NoDelivery
  /\ NoCalls
  /\ NoPairing

\* connect() calls made so far
NumConnects == Cardinality({k \in Conns : connPc[k] # "none"})

\* _validateConnection: TRUE when it throws
NotConnected(sk, st) == sk = 0 \/ st # CONNECTED

\* an emitted event: its name, its payload's class or status, its reason
Ev(e, a, r) == [ev |-> e, arg |-> a, reason |-> r]

\* the 'type' attribute the transport attaches to a close ('unknown' when absent)
ReasonTypes == {"unknown"}

\* ------------------------------------------------------------- connect()
\* connect(), up to its first await: status = INIT, then
\* useMultiFileAuthState is awaited.  pcs is connPc before the call.
CallConnect(pcs, cause) ==
  LET k == Cardinality({j \in Conns : pcs[j] # "none"}) + 1 IN
  /\ k \in Conns
  /\ status' = INIT
  /\ connPc' = [pcs EXCEPT ![k] = "creds"]
  /\ connCause' = [connCause EXCEPT ![k] = cause]

\* the application calls client.connect(); it does so when it has no
\* connection and no connection attempt of its own in progress
UserConnect ==
  /\ \A k \in Conns : connPc[k] \in {"none", "closed", "failed"}
  /\ CallConnect(connPc, <<"user", 0>>)
  /\ staleManual' = manualDisconnect
  /\ UNCHANGED <<restartOnClose, connected, manualDisconnect, sock,
                 presenceSetInterval, timers, openPc, openEv, closeRec>>
  /\ UNCHANGED <<msgVars, pureVars, pairVars>>

\* useMultiFileAuthState resolved; fetchLatestBaileysVersion is awaited
ConnectCreds(k) ==
  /\ connPc[k] = "creds"
  /\ connPc' = [connPc EXCEPT ![k] = "version"]
  /\ UNCHANGED <<restartOnClose, status, connected, manualDisconnect, sock,
                 connCause, presenceSetInterval, timers, openPc, openEv,
                 closeRec>>
  /\ UNCHANGED <<msgVars, pureVars, pairVars, staleManual>>

\* fetchLatestBaileysVersion resolved: this.sock = makeWASocket(...), the
\* handlers are registered on the new socket
ConnectSocket(k) ==
  /\ connPc[k] = "version"
  /\ connPc' = [connPc EXCEPT ![k] = "live"]
  /\ sock' = k
  /\ UNCHANGED <<restartOnClose, status, connected, manualDisconnect,
                 connCause, presenceSetInterval, timers, openPc, openEv,
                 closeRec>>
  /\ UNCHANGED <<msgVars, pureVars, pairVars, staleManual>>

\* useMultiFileAuthState or fetchLatestBaileysVersion rejected, or
\* makeWASocket threw: connect() has no try/catch and emits nothing, its
\* promise rejects ("failed") and no socket is made.  The close handler
\* neither awaits nor catches the connect() calls it makes.
ConnectFail(k) ==
  /\ connPc[k] \in {"creds", "version"}
  /\ connPc' = [connPc EXCEPT ![k] = "failed"]
  /\ UNCHANGED <<restartOnClose, status, connected, manualDisconnect, sock,
                 connCause, presenceSetInterval, timers, openPc, openEv,
                 closeRec>>
  /\ UNCHANGED <<msgVars, pureVars, pairVars, staleManual>>

\* ------------------------------------- connection.update with a qr
NextAttempt_Restart(n) == 1

\* `(this.qrCodeAttempts || 0) + 1`
NextAttempt(n) == n + 1

\* the transport delivers pairing artifact q on socket k, which is not
\* open yet: the handler runs up to `await QRCode.toDataURL(qr)`
TransportQr(k, q) ==
  /\ connPc[k] = "live"
  /\ qrPc[q] = "none"
  /\ \A p \in Qrs : p < q => qrPc[p] # "none"
  /\ qrPc' = [qrPc EXCEPT ![q] = "render"]
  /\ UNCHANGED <<restartOnClose, status, connected, manualDisconnect, sock,
                 connPc, connCause, presenceSetInterval, timers, openPc,
                 openEv, closeRec, qrCodeAttempts, pairEv>>
  /\ UNCHANGED <<msgVars, pureVars, staleManual>>

\* the artifact is rendered: count the attempt, status = pairing_code,
\* emit pairing_code({base64, qr, attempts}) and status_change(this.status)
QrRendered(q) ==
  /\ qrPc[q] = "render"
  /\ qrPc' = [qrPc EXCEPT ![q] = "done"]
  /\ qrCodeAttempts' = NextAttempt(qrCodeAttempts)
  /\ status' = PAIRING_CODE
  /\ pairEv' = Append(pairEv, [qr |-> q, attempts |-> qrCodeAttempts',
                                status |-> status'])
  /\ UNCHANGED <<restartOnClose, connected, manualDisconnect, sock, connPc,
                 connCause, presenceSetInterval, timers, openPc, openEv,
                 closeRec>>
  /\ UNCHANGED <<msgVars, pureVars, staleManual>>

\* ------------------------------------- connection.update, case 'open'
\* the handler up to `await this.itsMe()`: itsMe calls contacts.normalize,
\* whose first collaborator call is users.getBusinessProfile (the own id is
\* a user id); its _validateConnection passes, status was just set
OpenBegin(k) ==
  /\ connPc[k] = "live"
  /\ connPc' = [connPc EXCEPT ![k] = "open"]
  /\ connected' = TRUE
  /\ status' = CONNECTED
  /\ manualDisconnect' = FALSE
  /\ staleManual' = FALSE
  /\ openPc' = [openPc EXCEPT ![k] = "biz"]
  /\ UNCHANGED <<restartOnClose, sock, connCause, presenceSetInterval,
                 timers, openEv, closeRec>>
  /\ UNCHANGED <<msgVars, pureVars, pairVars>>

\* getBusinessProfile resolved; users.getStatus (no connection check) is
\* awaited
OpenAfterBiz(k) ==
  /\ openPc[k] = "biz"
  /\ openPc' = [openPc EXCEPT ![k] = "status"]
  /\ UNCHANGED <<restartOnClose, status, connected, manualDisconnect, sock,
                 connPc, connCause, presenceSetInterval, timers, openEv,
                 closeRec>>
  /\ UNCHANGED <<msgVars, pureVars, pairVars, staleManual>>

\* getStatus resolved; users.getProfilePicture runs _validateConnection,
\* which throws out of the handler when the status is no longer connected
OpenAfterStatus(k) ==
  /\ openPc[k] = "status"
  /\ openPc' = [openPc EXCEPT ![k] =
                  IF NotConnected(sock, status) THEN "thrown" ELSE "pic"]
  /\ UNCHANGED <<restartOnClose, status, connected, manualDisconnect, sock,
                 connPc, connCause, presenceSetInterval, timers, openEv,
                 closeRec>>
  /\ UNCHANGED <<msgVars, pureVars, pairVars, staleManual>>

\* getProfilePicture resolved, itsMe returns: emit connected and
\* status_change(this.status), then arm the presence interval
OpenAfterPic(k) ==
  /\ openPc[k] = "pic"
  /\ openPc' = [openPc EXCEPT ![k] = "done"]
  /\ openEv' = [openEv EXCEPT ![k] =
                  <<Ev("connected", "user", ""),
                    Ev("status_change", status, "")>>]
  /\ presenceSetInterval' = k
  /\ timers' = timers \cup {k}
  /\ UNCHANGED <<restartOnClose, status, connected, manualDisconnect, sock,
                 connPc, connCause, closeRec>>
  /\ UNCHANGED <<msgVars, pureVars, pairVars, staleManual>>

\* a collaborator call of itsMe rejected: the handler's promise rejects,
\* nothing is emitted, no interval is armed
OpenLookupFail(k) ==
  /\ openPc[k] \in {"biz", "status", "pic"}
  /\ openPc' = [openPc EXCEPT ![k] = "thrown"]
  /\ UNCHANGED <<restartOnClose, status, connected, manualDisconnect, sock,
                 connPc, connCause, presenceSetInterval, timers, openEv,
                 closeRec>>
  /\ UNCHANGED <<msgVars, pureVars, pairVars, staleManual>>

\* ------------------------------------ connection.update, case 'close'
IsRestart_Never(code) == FALSE

\* `if (statusCode === DisconnectReason.restartRequired) return this.connect()`
IsRestart(code) == code = RestartRequired

Classify_LoggedOutFirst(code, man) ==
  IF code = LoggedOut THEN LOGGED_OUT
  ELSE IF man THEN MANUAL_DISCONNECT
  ELSE IF code = PairingTimeout THEN PAIRING_FAILED
  ELSE CONNECTION_ERROR

Classify_NoLoggedOut(code, man) ==
  IF man THEN MANUAL_DISCONNECT
  ELSE IF code = PairingTimeout THEN PAIRING_FAILED
  ELSE CONNECTION_ERROR

\* the if / else-if chain that sets statusType
Classify(code, man) ==
  IF man THEN MANUAL_DISCONNECT
  ELSE IF code = LoggedOut THEN LOGGED_OUT
  ELSE IF code = PairingTimeout THEN PAIRING_FAILED
  ELSE CONNECTION_ERROR

\* the reason field of disconnectReason
ReasonOf(code, man, rt) ==
  IF ~man /\ code # LoggedOut /\ code = PairingTimeout
  THEN "qr_read_attempts_ended" ELSE rt

ReconnectsUnavailable_Never(code) == FALSE

\* `if (statusCode === DisconnectReason.unavailableService) return this.connect()`
ReconnectsUnavailable(code) == code = UnavailableService

\* the block `if (statusType === CONNECTION_ERROR)`, reached only when the
\* unavailable-service return was not taken
ReportsError(code, st) == ~ReconnectsUnavailable(code) /\ st = CONNECTION_ERROR

ReconnectsOnError_Always(code, st, roc) == ReportsError(code, st)

ReconnectsOnError_AnyClass(code, st, roc) ==
  /\ ~ReconnectsUnavailable(code)
  /\ st \in {CONNECTION_ERROR, PAIRING_FAILED, LOGGED_OUT}
  /\ roc

\* `if (this.restartOnClose) this.connect()` inside that block
ReconnectsOnError(code, st, roc) == ReportsError(code, st) /\ roc

\* the handler from `this.status = ClientEvent.DISCONNECTED` to its end;
\* rec is the handling so far, pcs is connPc with socket k closed
CloseTail(k, rec, pcs) ==
  LET unavailable == ReconnectsUnavailable(rec.code)
      isErr == ReportsError(rec.code, rec.statusType)
      reconnect == unavailable \/ ReconnectsOnError(rec.code, rec.statusType, restartOnClose)
      evs == rec.events \o
               <<Ev("disconnected", rec.statusType, rec.reason),
                 Ev("status_change", DISCONNECTED, "")>>
      evs2 == IF isErr THEN Append(evs, Ev("error", "update", "")) ELSE evs
  IN
  /\ closeRec' = [closeRec EXCEPT ![k] =
                    [rec EXCEPT !.pc = "done", !.events = evs2]]
  /\ IF reconnect
     THEN CallConnect(pcs, <<IF unavailable THEN "unavailable" ELSE "policy", k>>)
     ELSE /\ status' = DISCONNECTED
          /\ connPc' = pcs
          /\ UNCHANGED connCause

\* the handler from its start to its end or to `await fs.rm(...)`; man is
\* this.manualDisconnect as the handler reads it
CloseHandler(k, code, rt, man) ==
  LET pcs == [connPc EXCEPT ![k] = "closed"]
      st == Classify(code, man)
      rec == [pc |-> "run", code |-> code, manual |-> man,
              statusType |-> st, reason |-> ReasonOf(code, man, rt),
              events |-> <<>>, purge |-> FALSE]
  IN
  /\ timers' = IF presenceSetInterval # 0
               THEN timers \ {presenceSetInterval} ELSE timers
  /\ presenceSetInterval' = 0
  /\ connected' = FALSE
  /\ IF IsRestart(code)
     THEN /\ CallConnect(pcs, <<"restart", k>>)
          /\ closeRec' = [closeRec EXCEPT ![k] =
                            [rec EXCEPT !.pc = "done", !.statusType = "none",
                                        !.reason = "none"]]
     ELSE IF st = LOGGED_OUT
     THEN /\ closeRec' = [closeRec EXCEPT ![k] =
                            [rec EXCEPT !.pc = "rm", !.purge = TRUE]]
          /\ connPc' = pcs
          /\ UNCHANGED <<status, connCause>>
     ELSE CloseTail(k, rec, pcs)

\* the transport reports connection = 'close' on socket k
TransportClose(k, code, rt) ==
  /\ connPc[k] \in {"live", "open"}
  /\ CloseHandler(k, code, rt, manualDisconnect)
  /\ UNCHANGED <<restartOnClose, manualDisconnect, sock, openPc, openEv>>
  /\ UNCHANGED <<msgVars, pureVars, pairVars, staleManual>>

\* fs.rm resolved: the handler resumes after the try block
CloseAfterRm(k) ==
  /\ closeRec[k].pc = "rm"
  /\ CloseTail(k, closeRec[k], connPc)
  /\ UNCHANGED <<restartOnClose, connected, manualDisconnect, sock,
                 presenceSetInterval, timers, openPc, openEv>>
  /\ UNCHANGED <<msgVars, pureVars, pairVars, staleManual>>

\* fs.rm rejected: the catch emits an error event, the handler goes on
CloseRmFail(k) ==
  /\ closeRec[k].pc = "rm"
  /\ CloseTail(k, [closeRec[k] EXCEPT !.events = <<Ev("error", "rm", "")>>],
               connPc)
  /\ UNCHANGED <<restartOnClose, connected, manualDisconnect, sock,
                 presenceSetInterval, timers, openPc, openEv>>
  /\ UNCHANGED <<msgVars, pureVars, pairVars, staleManual>>

\* disconnect(): manualDisconnect = true, then this.sock?.end(), which
\* closes a socket that is not closed yet with no error (Boom gives 500)
UserDisconnect ==
  /\ manualDisconnect' = TRUE
  /\ staleManual' = FALSE
  /\ IF sock # 0 /\ connPc[sock] \in {"live", "open"}
     THEN CloseHandler(sock, DefaultBoomStatus, "unknown", TRUE)
     ELSE UNCHANGED <<status, connected, connPc, connCause,
                      presenceSetInterval, timers, closeRec>>
  /\ UNCHANGED <<restartOnClose, sock, openPc, openEv>>
  /\ UNCHANGED <<msgVars, pureVars, pairVars>>

\* ------------------------------------------------------- MessageStore
\* a Date of instant t, and the ISO string JSON.stringify writes for it
DateValue(t) == [kind |-> "date", t |-> t]

IsoString(t) == [kind |-> "string", t |-> t]

\* the content of a normalized message besides id and timestamp: its text
\* and its media descriptor, an object with the method getAttachments, or
\* null
TextBody(text) ==
  [text |-> text, media |-> [present |-> FALSE, getAttachments |-> FALSE]]

MediaBody(text) ==
  [text |-> text, media |-> [present |-> TRUE, getAttachments |-> TRUE]]

\* a normalized message as the store sees it
Message(id, body, t) == [id |-> id, body |-> body, timestamp |-> DateValue(t)]

\* JSON.parse(JSON.stringify(message)), the round trip through the chat's
\* file: a Date comes back as its ISO string, a function-valued property is
\* left out
Jsonify(m) ==
  [m EXCEPT !.timestamp = IF @.kind = "date" THEN IsoString(@.t) ELSE @,
            !.body.media.getAttachments = FALSE]

SaveMessage_Overwrite(st, key, m) ==
  IF \E i \in 1..Len(st[key]) : st[key][i].id = m.id
  THEN [st EXCEPT ![key] =
          [i \in 1..Len(@) |-> IF @[i].id = m.id THEN Jsonify(m) ELSE @[i]]]
  ELSE [st EXCEPT ![key] = Append(@, Jsonify(m))]

\* MessageStore.saveMessage: `if (!messages.find(x => x.id === message.id))`
\* push the message and write the chat's file, else do nothing.  st holds
\* what _loadMessages reads back.
SaveMessage(st, key, m) ==
  IF \E i \in 1..Len(st[key]) : st[key][i].id = m.id
  THEN st
  ELSE [st EXCEPT ![key] = Append(@, Jsonify(m))]

\* MessageStore.getMessage: `messages.find(m => m.id === id)`
GetMessage(st, key, id) ==
  IF \E i \in 1..Len(st[key]) : st[key][i].id = id
  THEN st[key][CHOOSE i \in 1..Len(st[key]) :
                 /\ st[key][i].id = id
                 /\ \A j \in 1..(i - 1) : st[key][j].id # id]
  ELSE [kind |-> "undefined"]

\* `new Date(msg.timestamp).getTime()`
TimeOf(m) == m.timestamp.t

\* the last n elements of a sequence: `messages.slice(-n)`
LastN(sq, n) ==
  IF n >= Len(sq) THEN sq ELSE SubSeq(sq, Len(sq) - n + 1, Len(sq))

\* MessageStore.getMessages(chatId, {from, to, limit}); 0 is an option that
\* is absent (or falsy)
GetMessages(st, key, from, to, limit) ==
  LET InWindow(m) ==
        /\ (from = 0 \/ TimeOf(m) >= from)
        /\ (to = 0 \/ TimeOf(m) <= to)
      filtered == IF from # 0 \/ to # 0
                  THEN SelectSeq(st[key], InWindow) ELSE st[key]
  IN IF limit # 0 THEN LastN(filtered, limit) ELSE filtered

\* MessageStore.getMessage: TRUE when a message with that id is found
HasMessage(st, key, id) == \E i \in 1..Len(st[key]) : st[key][i].id = id

\* ------------------------------ MessageNormalizer: the message payload
\* The payload (rawMessage.message) is modelled by its top-level keys in
\* Object.keys order, the first key of associatedChildMessage.message, the
\* state of interactiveMessage.interactiveButtons ("absent", "empty", or the
\* name of its first button), whether interactiveMessage.interactiveList is
\* set, interactiveResponseMessage.nativeFlowResponseMessage ("absent" or
\* its name), and the set of text-bearing fields that are non-empty.
Payload(keys, child, buttons, list, flow, texts) ==
  [keys |-> keys, child |-> child, buttons |-> buttons, list |-> list,
   flow |-> flow, texts |-> texts]

\* the text-bearing fields in the order _extractBody reads them: the
\* top-level key of each
PathKey ==
  <<"conversation", "extendedTextMessage", "imageMessage", "videoMessage",
    "associatedChildMessage", "documentWithCaptionMessage",
    "buttonsResponseMessage", "listResponseMessage",
    "templateButtonReplyMessage", "interactiveResponseMessage",
    "questionReplyMessage">>

\* the field itself; its value, when non-empty, is modelled by its name
PathText ==
  <<"conversation", "extendedTextMessage.text", "imageMessage.caption",
    "videoMessage.caption",
    "associatedChildMessage.message.videoMessage.caption",
    "documentWithCaptionMessage.message.documentMessage.caption",
    "buttonsResponseMessage.selectedDisplayText", "listResponseMessage.title",
    "templateButtonReplyMessage.selectedDisplayText",
    "interactiveResponseMessage.body.text",
    "questionReplyMessage.message.extendedTextMessage.text">>

Paths == 1..Len(PathKey)

Has(m, k) == \E i \in 1..Len(m.keys) : m.keys[i] = k

ButtonNames ==
  {"review_and_pay", "review_order", "quick_reply", "cta_url", "cta_copy",
   "cta_call", "voice_call"}

\* _getFriendlyType(message); "throw" is the TypeError of
\* `interactiveButtons[0].name` on an empty list
GetFriendlyType(m) ==
  IF 1 \in m.texts \/ Has(m, "extendedTextMessage") THEN "text"
  ELSE IF Has(m, "imageMessage") THEN "image"
  ELSE IF Has(m, "albumMessage") THEN "album"
  ELSE IF Has(m, "videoMessage")
          \/ (Has(m, "associatedChildMessage") /\ m.child = "videoMessage")
       THEN "video"
  ELSE IF Has(m, "audioMessage") THEN "audio"
  ELSE IF Has(m, "documentMessage") THEN "document"
  ELSE IF Has(m, "documentWithCaptionMessage") THEN "document"
  ELSE IF Has(m, "stickerMessage") THEN "sticker"
  ELSE IF Has(m, "locationMessage") THEN "location"
  ELSE IF Has(m, "contactMessage") \/ Has(m, "contactsArrayMessage")
       THEN "contact"
  ELSE IF Has(m, "buttonsResponseMessage") \/ Has(m, "listResponseMessage")
       THEN "interactive_reply"
  ELSE IF Has(m, "reactionMessage") THEN "reaction"
  ELSE IF Has(m, "pollCreationMessage") \/ Has(m, "pollCreationMessageV3")
       THEN "poll_creation"
  ELSE IF Has(m, "pollUpdateMessage") THEN "poll_update"
  ELSE IF Has(m, "templateButtonReplyMessage") THEN "template_button_reply"
  ELSE IF Has(m, "pinInChatMessage") THEN "pin_in_chat"
  ELSE IF Has(m, "unpinInChatMessage") THEN "unpin_in_chat"
  ELSE IF Has(m, "questionReplyMessage") THEN "question_reply"
  ELSE IF Has(m, "interactiveMessage") /\ m.buttons = "empty" THEN "throw"
  ELSE IF Has(m, "interactiveMessage") /\ m.buttons \in ButtonNames
       THEN m.buttons
  ELSE IF Has(m, "interactiveResponseMessage") /\ m.flow = "menu_options"
       THEN "native_flow_menu_options_response"
  ELSE IF Has(m, "interactiveResponseMessage") /\ m.flow # "absent"
       THEN "native_flow_response"
  ELSE IF Has(m, "interactiveMessage") /\ m.buttons # "absent"
       THEN "interactive_buttons"
  ELSE IF Has(m, "interactiveMessage") /\ m.list THEN "interactive_list"
  ELSE IF Has(m, "interactiveResponseMessage") THEN "interactive_response"
  ELSE IF Has(m, "interactiveMessage") THEN "interactive_message"
  ELSE "unknown"

ExtractBody_CaptionFirst(m) ==
  IF 3 \in m.texts THEN PathText[3]
  ELSE IF 1 \in m.texts THEN PathText[1]
  ELSE IF 2 \in m.texts THEN PathText[2]
  ELSE IF \E p \in m.texts : p > 3
       THEN PathText[CHOOSE p \in m.texts :
                       p > 3 /\ \A q \in m.texts : q > 3 => p <= q]
  ELSE ""

\* _extractBody(message): the chain of `||`
ExtractBody(m) ==
  IF 1 \in m.texts THEN PathText[1]
  ELSE IF 2 \in m.texts THEN PathText[2]
  ELSE IF 3 \in m.texts THEN PathText[3]
  ELSE IF 4 \in m.texts THEN PathText[4]
  ELSE IF 5 \in m.texts THEN PathText[5]
  ELSE IF 6 \in m.texts THEN PathText[6]
  ELSE IF 7 \in m.texts THEN PathText[7]
  ELSE IF 8 \in m.texts THEN PathText[8]
  ELSE IF 9 \in m.texts THEN PathText[9]
  ELSE IF 10 \in m.texts THEN PathText[10]
  ELSE IF 11 \in m.texts THEN PathText[11]
  ELSE ""

\* the keys _enrichWithTypedData treats as media
MediaKeys ==
  {"imageMessage", "videoMessage", "audioMessage", "documentMessage",
   "stickerMessage", "documentWithCaptionMessage"}

\* `Object.keys(message).find(key => key != "messageContextInfo")`, then the
\* same inside associatedChildMessage.message; "" is undefined
EnrichKey(m) ==
  LET idx == {i \in 1..Len(m.keys) : m.keys[i] # "messageContextInfo"}
      first == IF idx = {} THEN ""
               ELSE m.keys[CHOOSE i \in idx : \A j \in idx : i <= j]
  IN IF first = "associatedChildMessage" THEN m.child ELSE first

\* _enrichWithTypedData on the fresh message (hasMedia false, media null,
\* location null): whether media and location are set
Enrich(m) ==
  [hasMedia |-> EnrichKey(m) \in MediaKeys,
   media |-> EnrichKey(m) \in MediaKeys,
   location |-> EnrichKey(m) = "locationMessage"]

\* payloads with one content key, alone or next to a key that carries no
\* content
Variants ==
  {"conversation", "extendedTextMessage", "imageMessage", "albumMessage",
   "videoMessage", "associatedChildMessage", "audioMessage",
   "documentMessage", "documentWithCaptionMessage", "stickerMessage",
   "locationMessage", "contactMessage", "contactsArrayMessage",
   "buttonsResponseMessage", "listResponseMessage", "reactionMessage",
   "pollCreationMessage", "pollCreationMessageV3", "pollUpdateMessage",
   "templateButtonReplyMessage", "pinInChatMessage", "unpinInChatMessage",
   "questionReplyMessage", "interactiveMessage",
   "interactiveResponseMessage", "eventMessage"}

AuxKeys == {"messageContextInfo", "senderKeyDistributionMessage"}

KeyOrders(v) ==
  {<<v>>} \cup {<<a, v>> : a \in AuxKeys} \cup {<<v, a>> : a \in AuxKeys}

ChildKeys == {"videoMessage", "imageMessage", "locationMessage"}

\* the text field of a variant (0: it has none)
PathOf(v, child) ==
  IF v = "associatedChildMessage" /\ child # "videoMessage" THEN 0
  ELSE IF \E p \in Paths : PathKey[p] = v
       THEN CHOOSE p \in Paths : PathKey[p] = v
       ELSE 0

SinglePayloads ==
  UNION {
    {Payload(ks, child, buttons, list, flow, texts) :
       ks \in KeyOrders(v),
       buttons \in (IF v = "interactiveMessage"
                    THEN {"absent", "empty", "quick_reply", "other_button"}
                    ELSE {"absent"}),
       list \in (IF v = "interactiveMessage" THEN BOOLEAN ELSE {FALSE}),
       flow \in (IF v = "interactiveResponseMessage"
                 THEN {"absent", "menu_options", "other_flow"}
                 ELSE {"absent"}),
       texts \in (IF PathOf(v, child) = 0 THEN {{}}
                  ELSE {{}, {PathOf(v, child)}})} :
    v \in Variants,
    child \in ChildKeys}

\* payloads with up to MaxTexts non-empty text fields, their keys in the
\* order of the fields
TextPayloads ==
  {Payload([i \in 1..Cardinality(T) |->
              PathKey[CHOOSE p \in T : Cardinality({q \in T : q < p}) = i - 1]],
           IF 5 \in T THEN "videoMessage" ELSE "", "absent", FALSE, "absent",
           T) : T \in {S \in SUBSET Paths : Cardinality(S) <= MaxTexts}}

\* the payloads of the envelopes of messages.upsert: a plain text, a poll
\* update
PayloadOf(payload) ==
  IF payload = "text"
  THEN Payload(<<"conversation">>, "", "absent", FALSE, "absent", {1})
  ELSE Payload(<<"pollUpdateMessage">>, "", "absent", FALSE, "absent", {})

\* the normalized message an event carries: its type, body and hasMedia
Normalized(payload) ==
  [kind |-> "normalized", type |-> GetFriendlyType(PayloadOf(payload)),
   body |-> ExtractBody(PayloadOf(payload)),
   hasMedia |-> Enrich(PayloadOf(payload)).hasMedia]

\* --------------------------------------------------- messages.upsert
\* A handler's variables (msg, contact) live in envs while the handler is
\* suspended and are dropped when it returns.  A field of the envelope is
\* drawn by the step that first reads it: the chat id and the presence of a
\* payload at the start, the poll update inside MessageNormalizer.normalize,
\* the delivery type and key.fromMe at the final switch.

\* the switch on the delivery type and key.fromMe
Route_AppendReceived(type, fromMe) ==
  IF type = "append" THEN "message_received"
  ELSE IF type = "notify"
       THEN (IF fromMe THEN "message_sent" ELSE "message_received")
       ELSE "notification"

Route(type, fromMe) ==
  IF type = "append" THEN "message_sent"
  ELSE IF type = "notify"
       THEN (IF fromMe THEN "message_sent" ELSE "message_received")
       ELSE "notification"

\* positions at which a handler awaits a lookup of ContactHandler.normalize
LookupStages == {"biz", "status", "pic"}

\* the handler of envelope e returns
Returned(e) == [envs EXCEPT ![e] = [pc |-> "done", chat |-> "none"]]

\* how a call of a store's setMessage can end
AppendOutcomes == {"ok", "throws", "rejects"}

EmitError_Swallow(e, chat, why) ==
  /\ envs' = Returned(e)
  /\ UNCHANGED <<msgEvents, store, delivery>>

\* the catch of the handler: emit error({error, event}); why is what threw:
\* _validateConnection ("not_connected"), a collaborator lookup ("lookup") or
\* the store's setMessage ("append")
EmitError(e, chat, why) ==
  /\ msgEvents' = Append(msgEvents,
                         [ev |-> "error", env |-> e, chat |-> chat, why |-> why])
  /\ envs' = Returned(e)
  /\ UNCHANGED <<store, delivery>>

\* `if (nmsg && this.store && this.store?.setMessage) this.store?.setMessage(nmsg.chatId, nmsg)`
\* followed by the emit of the switch; a normalized message has no chatId
\* field, the key passed is undefined
\* setMessage is not awaited.  It stores and returns ("ok"), throws
\* ("throws": the statement is inside the handler's try, the catch runs
\* instead of the switch) or returns a promise that rejects ("rejects": the
\* rejection is handled by nobody, the switch runs).
EmitMessage(e, chat, payload, type, fromMe) ==
  \E out \in (IF storeHasSet THEN AppendOutcomes ELSE {"none"}) :
    IF out = "throws"
    THEN EmitError(e, chat, "append")
    ELSE /\ store' = IF out = "ok"
                     THEN SaveMessage(store, "undefined",
                                      Message(e, TextBody("nmsg"), e))
                     ELSE store
         /\ msgEvents' = Append(msgEvents,
                                [ev |-> Route(type, fromMe), env |-> e,
                                 chat |-> chat, why |-> ""])
         /\ delivery' = [env |-> e, type |-> type, fromMe |-> fromMe,
                         msg |-> Normalized(payload)]
         /\ envs' = Returned(e)

\* MessageNormalizer.normalize up to its first collaborator call: a poll
\* update awaits client.store.getMessage, any other payload has none
AfterContact(e, chat, payload, type, fromMe) ==
  IF payload = "poll"
  THEN /\ envs' = [envs EXCEPT ![e] = [pc |-> "store", chat |-> chat]]
       /\ UNCHANGED <<store, msgEvents, delivery>>
  ELSE EmitMessage(e, chat, payload, type, fromMe)

\* the transport emits messages.upsert; the handler runs to its first
\* collaborator call.  messages[0] has no payload or a protocol message:
\* notification(raw).  Otherwise contacts.get; on a miss contacts.normalize
\* starts with getBusinessProfile / groups.getMetadata, which first runs
\* _validateConnection.
UpsertBegin(e, chat, payload, type, fromMe) ==
  /\ envs[e].pc = "none"
  /\ \A d \in Envs : d < e => envs[d].pc # "none"
  /\ \E k \in Conns : connPc[k] = "open"
  /\ IF payload \in {"none", "protocol"}
     THEN /\ msgEvents' = Append(msgEvents,
                 [ev |-> "notification", env |-> e, chat |-> chat,
                  why |-> "raw"])
          /\ envs' = Returned(e)
          /\ UNCHANGED <<store, lookups, delivery>>
     ELSE IF chat \in contacts
     THEN AfterContact(e, chat, payload, type, fromMe) /\ UNCHANGED lookups
     ELSE IF NotConnected(sock, status)
     THEN EmitError(e, chat, "not_connected") /\ UNCHANGED lookups
     ELSE /\ envs' = [envs EXCEPT ![e] = [pc |-> "biz", chat |-> chat]]
          /\ lookups' = [lookups EXCEPT ![chat].profile = @ + 1]
          /\ UNCHANGED <<store, msgEvents, delivery>>
  /\ UNCHANGED <<storeHasSet, contacts>>
  /\ UNCHANGED <<lifeVars, pureVars>>

\* the business profile / group metadata arrived; users.getStatus is awaited
UpsertAfterBiz(e) ==
  /\ envs[e].pc = "biz"
  /\ envs' = [envs EXCEPT ![e].pc = "status"]
  /\ lookups' = [lookups EXCEPT ![envs[e].chat].status = @ + 1]
  /\ UNCHANGED <<storeHasSet, store, contacts, msgEvents, delivery>>
  /\ UNCHANGED <<lifeVars, pureVars>>

\* the status arrived; users.getProfilePicture runs _validateConnection
UpsertAfterStatus(e) ==
  /\ envs[e].pc = "status"
  /\ IF NotConnected(sock, status)
     THEN EmitError(e, envs[e].chat, "not_connected") /\ UNCHANGED lookups
     ELSE /\ envs' = [envs EXCEPT ![e].pc = "pic"]
          /\ lookups' = [lookups EXCEPT ![envs[e].chat].picture = @ + 1]
          /\ UNCHANGED <<store, msgEvents, delivery>>
  /\ UNCHANGED <<storeHasSet, contacts>>
  /\ UNCHANGED <<lifeVars, pureVars>>

\* the picture arrived: contacts.normalize returns, contacts.set caches the
\* contact, MessageNormalizer.normalize starts
UpsertAfterPic(e, payload, type, fromMe) ==
  /\ envs[e].pc = "pic"
  /\ contacts' = contacts \cup {envs[e].chat}
  /\ AfterContact(e, envs[e].chat, payload, type, fromMe)
  /\ UNCHANGED <<storeHasSet, lookups>>
  /\ UNCHANGED <<lifeVars, pureVars>>

\* a lookup of contacts.normalize rejected: the catch emits error
UpsertLookupFail(e) ==
  /\ envs[e].pc \in LookupStages
  /\ EmitError(e, envs[e].chat, "lookup")
  /\ UNCHANGED <<storeHasSet, contacts, lookups>>
  /\ UNCHANGED <<lifeVars, pureVars>>

\* _extractPollUpdate, client.store.getMessage settled.  With a usable poll
\* creation message client.decryptPollVote is awaited; with none, with one
\* lacking its fields, or when the lookup threw, _extractPollUpdate returns
\* (null or the degraded poll state) and the message is emitted.
UpsertAfterStore(e, found, type, fromMe) ==
  /\ envs[e].pc = "store"
  /\ IF found
     THEN /\ envs' = [envs EXCEPT ![e].pc = "decrypt"]
          /\ UNCHANGED <<store, msgEvents, delivery>>
     ELSE EmitMessage(e, envs[e].chat, "poll", type, fromMe)
  /\ UNCHANGED <<storeHasSet, contacts, lookups>>
  /\ UNCHANGED <<lifeVars, pureVars>>

\* decryptPollVote settled (its rejection is caught inside
\* _extractPollUpdate): the message is emitted
UpsertAfterDecrypt(e, type, fromMe) ==
  /\ envs[e].pc = "decrypt"
  /\ EmitMessage(e, envs[e].chat, "poll", type, fromMe)
  /\ UNCHANGED <<storeHasSet, contacts, lookups>>
  /\ UNCHANGED <<lifeVars, pureVars>>

Next ==
  \/ UserConnect
  \/ UserDisconnect
  \/ \E k \in Conns : ConnectCreds(k)
  \/ \E k \in Conns : ConnectSocket(k)
  \/ \E k \in Conns : ConnectFail(k)
  \/ \E k \in Conns : OpenBegin(k)
  \/ \E k \in Conns : OpenAfterBiz(k)
  \/ \E k \in Conns : OpenAfterStatus(k)
  \/ \E k \in Conns : OpenAfterPic(k)
  \/ \E k \in Conns : OpenLookupFail(k)
  \/ \E k \in Conns, code \in StatusCodes, rt \in ReasonTypes :
       TransportClose(k, code, rt)
  \/ \E k \in Conns : CloseAfterRm(k)
  \/ \E k \in Conns : CloseRmFail(k)

Spec == Init /\ [][Next]_vars

\* A client that is connected on its first socket: the state a run of Spec
\* reaches by UserConnect, ConnectCreds, ConnectSocket and OpenBegin to
\* OpenAfterPic.  The store is the default one or one with setMessage;
\* either no chat is cached yet or earlier traffic has normalized and
\* cached both.
MsgInit ==
  /\ restartOnClose = FALSE
  /\ status = CONNECTED
  /\ connected = TRUE
  /\ manualDisconnect = FALSE
  /\ sock = 1
  /\ connPc = [k \in Conns |-> IF k = 1 THEN "open" ELSE "none"]
  /\ connCause = [k \in Conns |-> IF k = 1 THEN <<"user", 0>> ELSE <<"none", 0>>]
  /\ presenceSetInterval = 1
  /\ timers = {1}
  /\ openPc = [k \in Conns |-> IF k = 1 THEN "done" ELSE "none"]
  /\ openEv = [k \in Conns |->
                 IF k = 1
                 THEN <<Ev("connected", "user", ""),
                        Ev("status_change", CONNECTED, "")>>
                 ELSE <<>>]
  /\ closeRec = [k \in Conns |-> NoClose]
  /\ storeHasSet \in BOOLEAN
  /\ store = [c \in StoreKeys |-> <<>>]
  /\ contacts \in {{}, Chats}
  /\ lookups = [c \in Chats |->
                  IF c \in contacts
                  THEN [profile |-> 1, status |-> 1, picture |-> 1]
                  ELSE NoLookups]
  /\ envs = [e \in Envs |-> NoEnv]
  /\ msgEvents = <<>>
  /\ delivery = NoDelivery
  /\ NoCalls
  /\ NoPairing

Payloads == {"none", "protocol", "text", "poll"}

VisiblePayloads == {"text", "poll"}

DeliveryTypes == {"notify", "append", "other"}

MsgNext ==
  \/ \E e \in Envs, chat \in Chats, payload \in Payloads,
        type \in DeliveryTypes, fromMe \in BOOLEAN :
       UpsertBegin(e, chat, payload, type, fromMe)
  \/ \E e \in Envs : UpsertAfterBiz(e)
  \/ \E e \in Envs : UpsertAfterStatus(e)
  \/ \E e \in Envs, payload \in VisiblePayloads, type \in DeliveryTypes,
        fromMe \in BOOLEAN :
       UpsertAfterPic(e, payload, type, fromMe)
  \/ \E e \in Envs : UpsertLookupFail(e)
  \/ \E e \in Envs, found \in BOOLEAN, type \in DeliveryTypes,
        fromMe \in BOOLEAN :
       UpsertAfterStore(e, found, type, fromMe)
  \/ \E e \in Envs, type \in DeliveryTypes, fromMe \in BOOLEAN :
       UpsertAfterDecrypt(e, type, fromMe)
  \/ TransportClose(1, DefaultBoomStatus, "unknown")

MsgSpec == MsgInit /\ [][MsgNext]_vars

\* ------------------------------------------- MessageStore on its own
\* message ids and contents the application saves
MsgIds == {"A1", "A2"}

Bodies == {TextBody("hi"), MediaBody("")}

\* instants of the messages' timestamps
Times == {1, 2}

\* the application calls store.saveMessage(chatId, message)
StoreSave(c, id, body, t) ==
  /\ Len(saves) < MaxSaves
  /\ store' = SaveMessage(store, c, Message(id, body, t))
  /\ saves' = Append(saves, [chat |-> c, msg |-> Message(id, body, t)])
  /\ UNCHANGED <<lifeVars, storeHasSet, contacts, lookups, envs, msgEvents,
                 delivery,
                 norm, op, content,
                 vote,
                 cache,
                 dir,
                 send>>

StoreNext ==
  \E c \in Chats, id \in MsgIds, body \in Bodies, t \in Times :
    StoreSave(c, id, body, t)

StoreSpec == Init /\ [][StoreNext]_vars

\* ------------------------------------ ContactHandler and UserHandler
\* The client is connected and the lookups of ContactHandler.normalize
\* succeed; what they return is the profile data as it is at the transport
\* at that moment, modelled by a version number.
DataVersions == {1, 2}

\* `.replace(/:.*?@/, "@")`
StripDevice(j) == [j EXCEPT !.device = FALSE]

\* `jid.endsWith('@lid')` / `jid.includes('@lid')`
IsLid(j) == j.server = "lid"

Defined(j) == j.server # "undefined"

\* ids the transport hands over: a stable user id, the same with a device
\* suffix, a device-scoped id (LID) with and without suffix, a group
UserJid == Jid("u1", FALSE, "s.whatsapp.net")
LidJid == Jid("77", FALSE, "lid")

Jids ==
  {UserJid, Jid("u1", TRUE, "s.whatsapp.net"), LidJid, Jid("77", TRUE, "lid"),
   Jid("g1", FALSE, "g.us")}

\* what signalRepository.lidMapping.getPNForLID answers: null for a peer it
\* cannot map, or the phone-number id, possibly with a device suffix
LidAnswers == {UndefinedJid, UserJid, Jid("u1", TRUE, "s.whatsapp.net")}

\* UserHandler.getPnForLid(lid): `jid?.replace(...)` is undefined when the
\* transport answers null
GetPnForLid(lid, answer) ==
  IF ~IsLid(lid) THEN [throws |-> "LID invalido", jid |-> UndefinedJid]
  ELSE [throws |-> "", jid |-> IF Defined(answer) THEN StripDevice(answer)
                               ELSE UndefinedJid]

Cached(ch, j) == j \in CacheKeys /\ ch[j].present

\* ContactHandler.get(jid): the Contact returned (NoContact is null) and
\* the number of transport calls made
ContactsGet(ch, jid, answer) ==
  LET j == IF IsLid(jid) THEN GetPnForLid(jid, answer).jid ELSE jid
  IN [contact |-> IF Cached(ch, j) THEN ch[j] ELSE NoContact,
      transportCalls |-> IF IsLid(jid) THEN 1 ELSE 0]

\* the first of remoteJid, remoteJidAlt that is defined and is / is not a
\* LID, without its device suffix; undefined when there is none
FirstJid(key, lid) ==
  IF Defined(key.remoteJid) /\ IsLid(key.remoteJid) = lid
  THEN StripDevice(key.remoteJid)
  ELSE IF Defined(key.remoteJidAlt) /\ IsLid(key.remoteJidAlt) = lid
  THEN StripDevice(key.remoteJidAlt)
  ELSE UndefinedJid

\* ContactHandler.normalize(message): id is chatId, the data is what the
\* lookups return now
ContactsNormalize(key, fresh) ==
  [present |-> TRUE, id |-> FirstJid(key, FALSE), data |-> fresh]

\* ContactHandler.set(jid, contact)
ContactsSet(ch, jid, contact) == [ch EXCEPT ![jid] = contact]

MessageKey(remoteJid, remoteJidAlt) ==
  [remoteJid |-> remoteJid, remoteJidAlt |-> remoteJidAlt]

\* the application calls contacts.get(jid)
DirGet(jid, answer) ==
  /\ dir' = [NoDir EXCEPT !.op = "get", !.arg = jid,
                          !.contact = ContactsGet(cache, jid, answer).contact,
                          !.transportCalls =
                            ContactsGet(cache, jid, answer).transportCalls]
  /\ UNCHANGED <<lifeVars, msgVars, saves, norm, op, content, vote, cache,
                 send>>

\* the application calls users.getPnForLid(lid)
DirGetPnForLid(lid, answer) ==
  /\ dir' = [NoDir EXCEPT !.op = "getPnForLid", !.arg = lid,
                          !.result =
                            IF GetPnForLid(lid, answer).throws # ""
                            THEN GetPnForLid(lid, answer).throws
                            ELSE IF Defined(GetPnForLid(lid, answer).jid)
                            THEN "jid" ELSE "undefined",
                          !.transportCalls = IF IsLid(lid) THEN 1 ELSE 0,
                          !.fresh = IF Defined(answer) THEN 1 ELSE 0]
  /\ UNCHANGED <<lifeVars, msgVars, saves, norm, op, content, vote, cache,
                 send>>

\* the messages.upsert handler resolves the contact of an envelope:
\* contacts.get(msg.key.remoteJid), on a miss contacts.normalize(msg) and
\* contacts.set(contact.id, contact)
DirUpsert(key, answer, fresh) ==
  LET got == ContactsGet(cache, key.remoteJid, answer).contact
      contact == IF got.present THEN got ELSE ContactsNormalize(key, fresh)
  IN /\ cache' = IF got.present THEN cache
                 ELSE ContactsSet(cache, contact.id, contact)
     /\ dir' = [NoDir EXCEPT !.op = "messages.upsert", !.arg = key.remoteJid,
                             !.contact = contact,
                             !.wasCached = got.present, !.fresh = fresh]
     /\ UNCHANGED <<lifeVars, msgVars, saves, norm, op, content, vote,
                 send>>

\* the contacts.update handler for an event with one entry c; changed is
\* whether a property of c has the value 'changed'
DirContactsUpdate(id, changed, answer, fresh) ==
  LET jid == IF IsLid(id) THEN GetPnForLid(id, answer).jid ELSE id
      got == IF Defined(jid) THEN ContactsGet(cache, jid, answer).contact
             ELSE NoContact
      contact == IF got.present THEN got
                 ELSE ContactsNormalize(MessageKey(jid, UndefinedJid), fresh)
  IN /\ cache' = IF changed THEN ContactsSet(cache, contact.id, contact)
                 ELSE cache
     /\ dir' = [NoDir EXCEPT !.op = "contacts.update", !.arg = id,
                             !.result = IF changed THEN "changed" ELSE "same",
                             !.contact = IF changed THEN contact ELSE NoContact,
                             !.wasCached = got.present, !.fresh = fresh]
     /\ UNCHANGED <<lifeVars, msgVars, saves, norm, op, content, vote,
                 send>>

DirNext ==
  \/ \E jid \in Jids, answer \in LidAnswers : DirGet(jid, answer)
  \/ \E lid \in Jids, answer \in LidAnswers : DirGetPnForLid(lid, answer)
  \/ \E remoteJid \in Jids, alt \in {UndefinedJid, UserJid, LidJid},
        answer \in LidAnswers, fresh \in DataVersions :
       DirUpsert(MessageKey(remoteJid, alt), answer, fresh)
  \/ \E id \in Jids, changed \in BOOLEAN, answer \in LidAnswers,
        fresh \in DataVersions :
       DirContactsUpdate(id, changed, answer, fresh)

DirSpec == Init /\ [][DirNext]_vars

\* ------------------- MessageNormalizer: resolving a decrypted vote
\* option labels of a poll
Labels == {"yes", "no", "maybe"}

\* the upper-case hex SHA-256 digest of an option label
Sha256Hex(label) ==
  CASE label = "yes" -> "8A7979"
    [] label = "no" -> "9390298F"
    [] label = "maybe" -> "D8C3FA"

\* hex strings of the hashes a decrypted vote can hold: the digest of a
\* label, or one that is the digest of no label
VoteHashes == {Sha256Hex(l) : l \in Labels} \cup {"00FF"}

SeqsUpTo(S, n) == UNION {[1..k -> S] : k \in 0..n}

\* the inner loop: the first option whose digest equals the hash is pushed
FirstMatch(hashHex, options) ==
  LET idx == {i \in 1..Len(options) : Sha256Hex(options[i]) = hashHex}
  IN IF idx = {} THEN <<>>
     ELSE <<options[CHOOSE i \in idx : \A j \in idx : i <= j]>>

RECURSIVE SelectedOptions_Positional(_, _)
SelectedOptions_Positional(decrypted, options) ==
  IF decrypted = <<>> \/ options = <<>> THEN <<>>
  ELSE (IF Sha256Hex(Head(options)) = Head(decrypted)
        THEN <<Head(options)>> ELSE <<>>)
       \o SelectedOptions_Positional(Tail(decrypted), Tail(options))

\* the loop over decrypted.selectedOptions
RECURSIVE SelectedOptions(_, _)
SelectedOptions(decrypted, options) ==
  IF decrypted = <<>> THEN <<>>
  ELSE FirstMatch(Head(decrypted), options)
       \o SelectedOptions(Tail(decrypted), options)

\* the poll state returned after a successful decryption
VoteState(selectedOptions) ==
  [selectedOptions |-> selectedOptions, success |-> Len(selectedOptions) > 0]

\* _extractPollUpdate after client.decryptPollVote returned
VoteCall(decrypted, options) ==
  /\ vote' = [called |-> TRUE, options |-> options, decrypted |-> decrypted,
              state |-> VoteState(SelectedOptions(decrypted, options))]
  /\ UNCHANGED <<lifeVars, msgVars, saves, norm, op, content,
                 cache,
                 dir,
                 send>>

VoteNext ==
  \E decrypted \in SeqsUpTo(VoteHashes, MaxVotes),
     options \in SeqsUpTo(Labels, MaxOptions) : VoteCall(decrypted, options)

VoteSpec == Init /\ [][VoteNext]_vars

\* ------------------------- MessageNormalizer: classifying a payload
\* normalize classifies a payload: type, body, media and location
ContentCall(m) ==
  /\ content' = [called |-> TRUE, message |-> m, type |-> GetFriendlyType(m),
                 body |-> ExtractBody(m), enriched |-> Enrich(m)]
  /\ UNCHANGED <<lifeVars, msgVars, saves, norm, op,
                 vote,
                 cache,
                 dir,
                 send>>

ContentNext == \E m \in SinglePayloads \cup TextPayloads : ContentCall(m)

ContentSpec == Init /\ [][ContentNext]_vars

\* ------------------------------------------------- MessageNormalizer
\* JavaScript values: undefined, null, an exception thrown
Undefined == [kind |-> "undefined"]

Null == [kind |-> "null"]

Throw(msg) == [kind |-> "throw", error |-> msg]

\* a raw envelope: key.id, the payload of its `message` ("none": no
\* message), key.fromMe, whether contextInfo.quotedMessage is present, and
\* for an edit wrapper protocolMessage.key.id
Envelope(id, payload, fromMe, quoted, innerId) ==
  [kind |-> "envelope", id |-> id, payload |-> payload, fromMe |-> fromMe,
   quoted |-> quoted, innerId |-> innerId]

NormPayloads == {"none", "text", "poll", "edit"}

RawMessages ==
  {Undefined} \cup
  {Envelope("W1", p, f, q, "A1") : p \in NormPayloads, f \in BOOLEAN,
                                  q \in BOOLEAN}

\* what client.store.getMessage does for the poll creation key: throws,
\* finds nothing, finds a record without `raw`, one without a poll creation
\* message, one without secret / name / options, or a complete one
StoreAnswers ==
  {"throws", "absent", "noraw", "nocreation", "incomplete", "found"}

\* what client.decryptPollVote does: throws, or returns hashes of which
\* none / one matches an option of the poll
DecryptAnswers == {"throws", "nomatch", "match"}

\* the client as normalize uses it: whether this.user is set, and its
\* collaborators' answers
ClientOf(userSet, storeOut, decryptOut) ==
  [kind |-> "client", userSet |-> userSet, storeOut |-> storeOut,
   decryptOut |-> decryptOut]

Clients ==
  {ClientOf(u, so, d) : u \in BOOLEAN, so \in StoreAnswers,
                        d \in DecryptAnswers}

ContactOf(c) == [kind |-> "contact", id |-> c]

HasPayload_AnyEnvelope(raw) == raw.kind = "envelope"

\* the negation of `!rawMessage || !rawMessage.message`
HasPayload(raw) == raw.kind = "envelope" /\ raw.payload # "none"

\* a poll state: the degraded one has no selected option and an error
PollState(sel, err) ==
  [kind |-> "pollState", selectedOptions |-> sel, error |-> err]

PollCatch_Rethrow(msg) == Throw(msg)

\* the catch of _extractPollUpdate
PollCatch(msg) == PollState(<<>>, msg)

\* _extractPollUpdate(msg, client): its value and the collaborator calls
\* it made
ExtractPollUpdate(raw, client) ==
  IF raw.payload # "poll"
  THEN [value |-> Null, calls |-> {}]
  ELSE IF client.storeOut = "throws"
  THEN [value |-> PollCatch("getMessage failed"), calls |-> {"getMessage"}]
  ELSE IF client.storeOut = "absent"
  THEN [value |-> Null, calls |-> {"getMessage"}]
  ELSE IF client.storeOut = "noraw"
  THEN [value |-> PollCatch("Cannot read properties of undefined"),
        calls |-> {"getMessage"}]
  ELSE IF client.storeOut = "nocreation"
  THEN [value |-> PollState(<<>>, "Poll creation message not found"),
        calls |-> {"getMessage"}]
  ELSE IF client.storeOut = "incomplete"
  THEN [value |-> PollState(<<>>, "Incomplete poll creation data"),
        calls |-> {"getMessage"}]
  ELSE [value |->
          IF client.decryptOut = "throws"
          THEN PollCatch("decryptPollVote failed")
          ELSE IF client.decryptOut = "match"
          THEN PollState(<<"opt">>, "")
          ELSE PollState(<<>>, ""),
        calls |-> {"getMessage", "decryptPollVote"}]

\* a promise nobody awaited, and the value it settles to
Promise(v) == [kind |-> "promise", settles |-> v]

RECURSIVE Normalize(_, _, _)

\* MessageNormalizer.normalize(contact, rawMessage, client): the value its
\* promise settles to and the collaborator calls made.  The two inner
\* calls pass (envelope, client): the envelope lands in `contact`, the
\* client in `rawMessage`, and they are not awaited.  For an edit wrapper
\* isEdited and id are set on the inner promise, and the outer promise
\* adopts the value the inner one settles to.
Normalize(contact, raw, client) ==
  IF ~HasPayload(raw)
  THEN [value |-> Null, calls |-> {}]
  ELSE IF raw.payload = "edit"
  THEN Normalize(Envelope(raw.innerId, "text", raw.fromMe, FALSE, ""),
                 client, Undefined)
  ELSE IF raw.fromMe /\ ~client.userSet
  THEN [value |-> Throw("Cannot read properties of undefined"), calls |-> {}]
  ELSE LET poll == ExtractPollUpdate(raw, client) IN
       IF poll.value.kind = "throw"
       THEN poll
       ELSE [value |->
               [kind |-> "message", id |-> raw.id, chat |-> contact,
                fromMe |-> raw.fromMe, isEdited |-> FALSE,
                pollUpdate |-> poll.value,
                quotedMessage |->
                  IF raw.quoted
                  THEN Promise(Normalize(
                         Envelope("Q1", "text", FALSE, FALSE, ""),
                         client, Undefined).value)
                  ELSE Null],
             calls |-> poll.calls]

\* MessageNormalizer.normalize is called
NormalizeCall(c, raw, client) ==
  /\ norm' = [called |-> TRUE, raw |-> raw, client |-> client,
              result |-> Normalize(ContactOf(c), raw, client)]
  /\ UNCHANGED <<lifeVars, msgVars, saves, op, content,
                 vote,
                 cache,
                 dir,
                 send>>

NormNext ==
  \E c \in Chats, raw \in RawMessages, client \in Clients :
    NormalizeCall(c, raw, client)

NormSpec == Init /\ [][NormNext]_vars

\* ------------------------------------------- public handler operations
\* operations of client.messages, users, groups, newsletters and calls that
\* call a method of this.sock
Ops ==
  {"messages.sendMessage", "messages.reply", "messages.editMessage",
   "messages.sendTyping", "messages.read", "messages.getAttachments",
   "users.getStatus", "users.getPnForLid", "users.getMyStatus",
   "users.getBusinessProfile", "users.getProfilePicture",
   "users.isOnWhatsApp", "users.block", "users.sendPresence",
   "groups.getMetadata", "groups.create", "groups.leave",
   "newsletters.getMetadata", "newsletters.follow", "calls.reject"}

\* the operations whose first statement is this.client._validateConnection()
Validates(o) ==
  o \notin {"messages.reply", "messages.editMessage", "users.getStatus",
            "users.getPnForLid", "users.getMyStatus"}

\* an operation up to its first use of this.client.sock: the error of
\* _validateConnection, a TypeError on a null sock, or the transport call
CallOutcome(o, sk, st) ==
  IF Validates(o)
  THEN (IF NotConnected(sk, st) THEN "not_connected" ELSE "transport")
  ELSE (IF sk = 0 THEN "type_error" ELSE "transport")

\* the application calls an operation of a handler
UserCall(o) ==
  /\ op' = [name |-> o, sock |-> sock, status |-> status,
            outcome |-> CallOutcome(o, sock, status)]
  /\ UNCHANGED <<lifeVars, msgVars, saves, norm, content,
                 vote,
                 cache,
                 dir,
                 send>>

\* the lifecycle as far as the status and the socket go, and the
\* application's calls in between
OpNext ==
  \/ UserConnect
  \/ \E k \in Conns : ConnectCreds(k)
  \/ \E k \in Conns : ConnectSocket(k)
  \/ \E k \in Conns : OpenBegin(k)
  \/ \E k \in Conns : TransportClose(k, DefaultBoomStatus, "unknown")
  \/ \E o \in Ops : UserCall(o)

OpSpec == Init /\ [][OpNext]_vars

\* ------------------------------------------- MessageHandler.sendMessage
\* what users.isOnWhatsApp resolves to, the first element of
\* sock.onWhatsApp(number): a record with exists true, a record with exists
\* false, or undefined (an empty answer)
LookupAnswers == {"exists", "not_exists", "undefined"}

\* sendMessage up to `await this.client.users.isOnWhatsApp(jid)`: its own
\* _validateConnection and that of isOnWhatsApp run in the same turn, then
\* sock.onWhatsApp is awaited
SendBegin ==
  /\ send.pc \in {"none", "done"}
  /\ send' = IF NotConnected(sock, status)
             THEN [NoSend EXCEPT !.pc = "done", !.returned = "not_connected"]
             ELSE [NoSend EXCEPT !.pc = "lookup"]
  /\ UNCHANGED <<lifeVars, msgVars, saves, norm, op, content, vote, cache,
                 dir>>

\* `if (verifiedJid && verifiedJid.exists)`: whether this.client.sock.sendMessage
\* is called
SendsWhen(answer, sk, st) == answer = "exists"

\* the lookup resolved.  With an existing recipient sock.sendMessage is
\* called and the message returned; otherwise the lookup result or
\* {error: {exists: false, ...}} is returned
SendAfterLookup(answer) ==
  /\ send.pc = "lookup"
  /\ send' = [pc |-> "done", lookup |-> answer,
              issued |-> SendsWhen(answer, sock, status),
              statusAtSend |-> IF SendsWhen(answer, sock, status)
                               THEN status ELSE "none",
              returned |-> IF SendsWhen(answer, sock, status) THEN "message"
                           ELSE IF answer = "not_exists" THEN "lookup_result"
                           ELSE "error"]
  /\ UNCHANGED <<lifeVars, msgVars, saves, norm, op, content, vote, cache,
                 dir>>

\* the lookup rejected: sendMessage rejects, nothing was sent
SendLookupFail ==
  /\ send.pc = "lookup"
  /\ send' = [NoSend EXCEPT !.pc = "done", !.lookup = "rejects",
                           !.returned = "rejects"]
  /\ UNCHANGED <<lifeVars, msgVars, saves, norm, op, content, vote, cache,
                 dir>>

\* the lifecycle as far as the status and the socket go, and sendMessage
\* calls in between
SendNext ==
  \/ UserConnect
  \/ UserDisconnect
  \/ \E k \in Conns : ConnectCreds(k)
  \/ \E k \in Conns : ConnectSocket(k)
  \/ \E k \in Conns : OpenBegin(k)
  \/ \E k \in Conns : TransportClose(k, DefaultBoomStatus, "unknown")
  \/ SendBegin
  \/ \E answer \in LookupAnswers : SendAfterLookup(answer)
  \/ SendLookupFail

SendSpec == Init /\ [][SendNext]_vars

\* ------------------------------------------------------------ pairing
\* the lifecycle of a client that is not paired yet: connects, artifacts,
\* and the closes that end an attempt (pairing timeout, restart after a
\* successful pairing, connection error)
PairCodes == {PairingTimeout, RestartRequired, DefaultBoomStatus}

PairNext ==
  \/ UserConnect
  \/ \E k \in Conns : ConnectCreds(k)
  \/ \E k \in Conns : ConnectSocket(k)
  \/ \E k \in Conns, q \in Qrs : TransportQr(k, q)
  \/ \E q \in Qrs : QrRendered(q)
  \/ \E k \in Conns, code \in PairCodes : TransportClose(k, code, "unknown")

PairSpec == Init /\ [][PairNext]_vars

\* connect() calls are started and finished whenever they can be
LiveSpec ==
  /\ Spec
  /\ \A k \in Conns : WF_vars(ConnectCreds(k)) /\ WF_vars(ConnectSocket(k))

\* ------------------------------------------------------------ properties
\* sockets whose close has been handled to the end
Handled == {k \in Conns : closeRec[k].pc = "done"}

\* the connect() calls made by the close handler of socket k
ConnectsBy(k) == {j \in Conns : connCause[j][2] = k}

\* the events named e in a sequence of events
Named(evs, e) == {i \in 1..Len(evs) : evs[i].ev = e}

DisconnectEvents(evs) ==
  {i \in 1..Len(evs) :
     \/ evs[i].ev = "disconnected"
     \/ evs[i].ev = "status_change" /\ evs[i].arg = DISCONNECTED}

\* C1: a close with the restart-required code calls connect() and emits
\* neither disconnected nor status_change(disconnected), whatever the manual
\* flag and restartOnClose are.
C1_RestartIsSilent ==
  \A k \in Handled :
    closeRec[k].code = RestartRequired =>
      /\ DisconnectEvents(closeRec[k].events) = {}
      /\ \E j \in ConnectsBy(k) : connCause[j][1] = "restart"

C1_Witness ==
  \E k \in Handled :
    /\ closeRec[k].code = RestartRequired
    /\ closeRec[k].manual
    /\ ~restartOnClose

\* C2: a close with the logged-out code while the manual flag is false is
\* emitted as a disconnected event of class logged_out, and the removal of
\* the session directory is invoked.
C2_LoggedOutPurges ==
  \A k \in Conns :
    (closeRec[k].pc \in {"rm", "done"} /\ closeRec[k].code = LoggedOut
       /\ ~closeRec[k].manual) =>
      /\ closeRec[k].purge
      /\ closeRec[k].pc = "done" =>
           /\ Cardinality(Named(closeRec[k].events, "disconnected")) = 1
           /\ \A i \in Named(closeRec[k].events, "disconnected") :
                closeRec[k].events[i].arg = LOGGED_OUT

C2_Witness ==
  \E k \in Handled :
    /\ closeRec[k].code = LoggedOut
    /\ ~closeRec[k].manual
    /\ closeRec[k].purge

\* C3: with the manual flag set when a close (not restart-required) is
\* handled, the close is classified manual_disconnect and the handler makes
\* no connect() call, for every status code and either restartOnClose.
C3_ManualNeverReconnects ==
  \A k \in Handled :
    (closeRec[k].manual /\ closeRec[k].code # RestartRequired) =>
      /\ closeRec[k].statusType = MANUAL_DISCONNECT
      /\ ConnectsBy(k) = {}

\* the close handler of every service-unavailable close (manual flag not
\* set) emitted disconnected and status_change(disconnected), nothing else,
\* and called connect()
C4_HandledUnavailable ==
  \A k \in Handled :
    (closeRec[k].code = UnavailableService /\ ~closeRec[k].manual) =>
      /\ \E j \in ConnectsBy(k) : connCause[j][1] = "unavailable"
      /\ Len(closeRec[k].events) = 2
      /\ closeRec[k].events[1].ev = "disconnected"
      /\ closeRec[k].events[2] = Ev("status_change", DISCONNECTED, "")

\* C4: a close with the service-unavailable code (manual flag not set) calls
\* connect() right after emitting the disconnect, with either restartOnClose,
\* and that call, unless loading the credentials or the version fails,
\* eventually makes a socket.
C4_UnavailableReconnects ==
  /\ []C4_HandledUnavailable
  /\ \A j \in Conns :
       (connCause[j][1] = "unavailable" /\ connPc[j] \in {"creds", "version"})
         ~> (connPc[j] \in {"live", "open", "closed", "failed"})

C4_Witness ==
  \E k \in Handled, j \in Conns :
    /\ closeRec[k].code = UnavailableService
    /\ ~closeRec[k].manual
    /\ ~restartOnClose
    /\ connCause[j] = <<"unavailable", k>>
    /\ connPc[j] = "live"

\* C5: a close that is none of restart-required, manual, logged-out,
\* pairing-exhausted and service-unavailable is classified connection_error,
\* an error event is emitted, and connect() is called exactly when
\* restartOnClose is true.
C5_OtherCloseIsConnectionError ==
  \A k \in Handled :
    (/\ ~closeRec[k].manual
     /\ closeRec[k].code \notin
          {RestartRequired, LoggedOut, PairingTimeout, UnavailableService}) =>
      /\ closeRec[k].statusType = CONNECTION_ERROR
      /\ closeRec[k].events =
           <<Ev("disconnected", CONNECTION_ERROR, closeRec[k].reason),
             Ev("status_change", DISCONNECTED, ""),
             Ev("error", "update", "")>>
      /\ (ConnectsBy(k) # {}) <=> restartOnClose

C5_Witness ==
  \E k \in Handled :
    /\ ~closeRec[k].manual
    /\ closeRec[k].code = DefaultBoomStatus
    /\ restartOnClose
    /\ ConnectsBy(k) # {}

\* C6: a close classified logged_out or pairing-exhausted never makes the
\* handler call connect(), restartOnClose or not; the pairing-exhausted
\* disconnect has class pairing_failed and reason qr_read_attempts_ended, a
\* class no other close gets.
C6_TerminalClosesStayClosed ==
  \A k \in Handled :
    /\ closeRec[k].statusType \in {LOGGED_OUT, PAIRING_FAILED} =>
         ConnectsBy(k) = {}
    /\ (closeRec[k].code = PairingTimeout /\ ~closeRec[k].manual) =>
         \E i \in Named(closeRec[k].events, "disconnected") :
           /\ closeRec[k].events[i].arg = PAIRING_FAILED
           /\ closeRec[k].events[i].reason = "qr_read_attempts_ended"
    /\ closeRec[k].statusType = PAIRING_FAILED =>
         (closeRec[k].code = PairingTimeout /\ ~closeRec[k].manual)

C6_Witness ==
  /\ restartOnClose
  /\ \E k \in Handled : closeRec[k].statusType = PAIRING_FAILED
  /\ \E k \in Handled : closeRec[k].statusType = LOGGED_OUT

\* C7: at most one presence interval is armed, and none is armed once the
\* close of every opened socket has been handled.
C7_OneHeartbeat ==
  /\ Cardinality(timers) <= 1
  /\ (\A k \in Conns : connPc[k] # "open") => timers = {}

\* the message events of the log: message_received and message_sent
MessageEvents ==
  {i \in 1..Len(msgEvents) :
     msgEvents[i].ev \in {"message_received", "message_sent"}}

\* C8: whenever message_received or message_sent is emitted for a message
\* of a chat, the store already holds that message under that chat:
\* getMessage(chat, id) finds it.
C8_StoredBeforeEmitted ==
  \A i \in MessageEvents :
    HasMessage(store, msgEvents[i].chat, msgEvents[i].env)

\* C9: of two envelopes of one chat, the message event of the one delivered
\* first is emitted first.
C9_ChatOrderKept ==
  \A i, j \in MessageEvents :
    (i < j /\ msgEvents[i].chat = msgEvents[j].chat) =>
      msgEvents[i].env < msgEvents[j].env

\* C10: a chat id missing from the cache is not normalized by two handlers
\* at once, and each of its lookups is issued at most once while no lookup
\* has failed.
C10_LookupsOnce ==
  /\ \A e1, e2 \in Envs :
       (e1 # e2 /\ envs[e1].chat = envs[e2].chat
          /\ envs[e1].pc \in LookupStages) =>
         envs[e2].pc \notin LookupStages
  /\ (\A i \in 1..Len(msgEvents) : msgEvents[i].ev # "error") =>
       \A c \in Chats :
         /\ lookups[c].profile <= 1
         /\ lookups[c].status <= 1
         /\ lookups[c].picture <= 1

\* C11: the handling of an envelope that started before the close of its
\* socket is not turned into an error by the close: no handler ends in the
\* error event because a connection check failed.  (Every handler of
\* MsgSpec starts on the open socket, hence before its close.)
C11_CloseKeepsInFlight ==
  \A i \in 1..Len(msgEvents) :
    ~(msgEvents[i].ev = "error" /\ msgEvents[i].why = "not_connected")

\* C13: a connect() call whose credential loading, version fetch or socket
\* creation fails does not reject, whether the application or a close
\* handler made the call.
C13_ConnectNeverRejects ==
  \A k \in Conns : connPc[k] # "failed"

\* C14: a failing append to the store does not suppress the message event:
\* no handler ends in the error event because setMessage threw.
C14_AppendFailureKeepsEvent ==
  \A i \in 1..Len(msgEvents) :
    ~(msgEvents[i].ev = "error" /\ msgEvents[i].why = "append")

\* C12: an operation of a handler that uses the transport, called while the
\* status is not 'connected', fails with the not-connected error and calls
\* no transport method.
C12_OperationsCheckConnection ==
  (op.name # "none" /\ op.status # CONNECTED) => op.outcome = "not_connected"

\* the saveMessage calls made for message id of chat c, and the records the
\* store holds for it
SavesOf(c, id) ==
  {j \in 1..Len(saves) : saves[j].chat = c /\ saves[j].msg.id = id}

RecordsOf(c, id) == {i \in 1..Len(store[c]) : store[c][i].id = id}

\* C15: after any sequence of saveMessage calls a chat holds at most one
\* record per message id, and that record is the message of the first call
\* made for the id, as persisted: a later call for a stored (chat, id)
\* changes nothing.
C15_FirstAppendWins ==
  \A c \in Chats, id \in MsgIds :
    /\ Cardinality(RecordsOf(c, id)) <= 1
    /\ SavesOf(c, id) # {} =>
         \E i \in RecordsOf(c, id) :
           \A j \in SavesOf(c, id) :
             (\A h \in SavesOf(c, id) : j <= h) =>
               store[c][i] = Jsonify(saves[j].msg)

C15_Witness ==
  \E c \in Chats, id \in MsgIds :
    \E j, h \in SavesOf(c, id) : j < h /\ saves[j].msg # saves[h].msg

\* the last normalize call was made on an envelope with that payload
NormalizedA(payload) ==
  /\ norm.called
  /\ norm.raw.kind = "envelope"
  /\ norm.raw.payload = payload

\* the poll state of the result is the degraded one: no selected option and
\* an error reason
DegradedPoll(v) ==
  /\ v.kind = "message"
  /\ v.pollUpdate.kind = "pollState"
  /\ v.pollUpdate.selectedOptions = <<>>
  /\ v.pollUpdate.error # ""

\* C16: for a poll update whose poll creation message is absent from the
\* store, normalize does not throw and the poll state has no selected
\* option and a non-empty error reason.
C16_AbsentPollDegrades ==
  (/\ NormalizedA("poll")
   /\ norm.client.storeOut = "absent"
   /\ "getMessage" \in norm.result.calls) =>
    DegradedPoll(norm.result.value)

\* C17: when the store lookup or the vote decryption throws, nothing
\* escapes normalize: the message is returned with a poll state that has no
\* selected option and carries the error's message.
C17_PollFailuresCaught ==
  (/\ NormalizedA("poll")
   /\ \/ /\ "getMessage" \in norm.result.calls
         /\ norm.client.storeOut = "throws"
      \/ /\ "decryptPollVote" \in norm.result.calls
         /\ norm.client.decryptOut = "throws") =>
    /\ DegradedPoll(norm.result.value)
    /\ norm.result.value.pollUpdate.error \in
         {"getMessage failed", "decryptPollVote failed"}
    /\ norm.result.value.id = norm.raw.id

C17_Witness ==
  /\ NormalizedA("poll")
  /\ norm.result.calls = {"getMessage", "decryptPollVote"}
  /\ norm.client.decryptOut = "throws"
  /\ norm.result.value.kind = "message"

\* C18: for an edit wrapper normalize yields a message whose id is the id
\* of the edited message (protocolMessage.key.id) and whose isEdited is
\* true.
C18_EditKeepsOriginalId ==
  NormalizedA("edit") =>
    /\ norm.result.value.kind = "message"
    /\ norm.result.value.id = norm.raw.innerId
    /\ norm.result.value.isEdited

\* C19: for an envelope that quotes a message, quotedMessage of the result
\* is a normalized message of the same chat, not null and not a promise.
C19_QuotedIsNormalized ==
  (/\ norm.called
   /\ norm.raw.kind = "envelope"
   /\ norm.raw.quoted
   /\ norm.result.value.kind = "message") =>
    /\ norm.result.value.quotedMessage.kind = "message"
    /\ norm.result.value.quotedMessage.chat = norm.result.value.chat

\* C20: for an absent envelope or one with no message payload normalize
\* returns null and makes no collaborator call.
C20_NoPayloadIsNull ==
  (norm.called /\ (norm.raw = Undefined \/ NormalizedA("none"))) =>
    /\ norm.result.value = Null
    /\ norm.result.calls = {}

C20_Witness ==
  /\ NormalizedA("none")
  /\ norm.client.storeOut = "throws"
  /\ norm.result.value = Null

\* C22: once the handler of connection = 'open' has run, it has emitted
\* connected with the self-contact and then status_change('connected').
C22_OpenAnnounces ==
  \A k \in Conns :
    openPc[k] = "done" =>
      openEv[k] = <<Ev("connected", "user", ""),
                    Ev("status_change", CONNECTED, "")>>

\* C24: a close with the logged-out code handled while the manual flag is
\* set is classified manual_disconnect, and the removal of the session
\* directory is not invoked.
C24_ManualBeatsLoggedOut ==
  \A k \in Conns :
    (closeRec[k].pc # "none" /\ closeRec[k].manual
       /\ closeRec[k].code = LoggedOut) =>
      /\ closeRec[k].statusType = MANUAL_DISCONNECT
      /\ ~closeRec[k].purge
      /\ \A i \in Named(closeRec[k].events, "disconnected") :
           closeRec[k].events[i].arg = MANUAL_DISCONNECT

C24_Witness ==
  \E k \in Handled :
    /\ closeRec[k].manual
    /\ closeRec[k].code = LoggedOut
    /\ Named(closeRec[k].events, "disconnected") # {}

\* C25: the disconnected event of a service-unavailable close (manual flag
\* not set) carries a class of its own, not the class connection_error of
\* the generic connection error.
C25_UnavailableHasOwnClass ==
  \A k \in Handled :
    (closeRec[k].code = UnavailableService /\ ~closeRec[k].manual) =>
      \A i \in Named(closeRec[k].events, "disconnected") :
        closeRec[k].events[i].arg # CONNECTION_ERROR

QueryOpts == {0, 1, 2}

\* a sequence of messages is ordered oldest-first
OldestFirst(sq) ==
  \A i, j \in 1..Len(sq) : i < j => TimeOf(sq[i]) <= TimeOf(sq[j])

\* C26: getMessages returns the stored messages of the chat inside the
\* time window, oldest first, and with a limit the most recent `limit` of
\* them.
C26_QueryWindowOrdered ==
  \A c \in Chats, from \in QueryOpts, to \in QueryOpts, limit \in QueryOpts :
    LET all == GetMessages(store, c, from, to, 0)
        res == GetMessages(store, c, from, to, limit)
    IN /\ {all[i] : i \in 1..Len(all)} =
            {store[c][i] : i \in
               {h \in 1..Len(store[c]) :
                  /\ (from = 0 \/ TimeOf(store[c][h]) >= from)
                  /\ (to = 0 \/ TimeOf(store[c][h]) <= to)}}
       /\ OldestFirst(res)
       /\ limit # 0 =>
            /\ Len(res) <= limit
            /\ res = LastN(all, limit)

\* C27: the message got back for an id equals, field for field, the
\* message that was saved first under that id in that chat.
C27_RoundTrip ==
  \A j \in 1..Len(saves) :
    (\A h \in SavesOf(saves[j].chat, saves[j].msg.id) : j <= h) =>
      GetMessage(store, saves[j].chat, saves[j].msg.id) = saves[j].msg

\* the closed enumeration of message types
FriendlyTypes ==
  {"text", "image", "album", "video", "audio", "document", "sticker",
   "location", "contact", "interactive_reply", "reaction", "poll_creation",
   "poll_update", "template_button_reply", "pin_in_chat", "unpin_in_chat",
   "question_reply", "native_flow_menu_options_response",
   "native_flow_response", "interactive_buttons", "interactive_list",
   "interactive_response", "interactive_message", "unknown"} \cup ButtonNames

\* C28: the type classification never throws and returns a type of the
\* enumeration for every payload, an unrecognized variant and an
\* interactiveMessage with an empty interactiveButtons list included.
C28_TypeIsTotal ==
  content.called => content.type \in FriendlyTypes

\* C29: the body is the value of the first non-empty field in the order
\* plain text, extended text, image caption, video caption, child-video
\* caption, document-with-caption caption, button reply text, list reply
\* title, template reply text, interactive response body, question reply
\* text, and the empty string when all are empty.
C29_BodyIsFirstNonEmpty ==
  content.called =>
    /\ content.message.texts = {} => content.body = ""
    /\ \A p \in content.message.texts :
         (\A q \in content.message.texts : p <= q) =>
           content.body = PathText[p]

C29_Witness ==
  /\ content.called
  /\ {3, 7, 11} \subseteq content.message.texts
  /\ 1 \notin content.message.texts
  /\ 2 \notin content.message.texts
  /\ content.body = PathText[3]

\* C30: hasMedia is true exactly when media is set, media is set only for
\* the types image, video, audio, document and sticker, and location only
\* for the type location.
C30_MediaMatchesType ==
  (content.called /\ content.type # "throw") =>
    /\ content.enriched.hasMedia <=> content.enriched.media
    /\ content.enriched.media =>
         content.type \in {"image", "video", "audio", "document", "sticker"}
    /\ content.enriched.location => content.type = "location"

SeqRange(sq) == {sq[i] : i \in 1..Len(sq)}

\* C31: for a decrypted vote, selectedOptions holds exactly the labels of
\* the poll options whose digest is one of the decrypted hashes, wherever
\* the option stands in the poll; a hash that is the digest of no option
\* adds nothing, and success is true exactly when selectedOptions is not
\* empty.
C31_VoteMatchesByHash ==
  vote.called =>
    /\ SeqRange(vote.state.selectedOptions) =
         {l \in SeqRange(vote.options) :
            Sha256Hex(l) \in SeqRange(vote.decrypted)}
    /\ vote.state.success <=> vote.state.selectedOptions # <<>>

C31_Witness ==
  /\ vote.called
  /\ vote.options = <<"yes", "no">>
  /\ vote.decrypted = <<"00FF", Sha256Hex("no")>>
  /\ vote.state.selectedOptions = <<"no">>
  /\ vote.state.success

\* C32: contacts.get only reads the cache: it makes no transport call,
\* for a stable and for a device-scoped id alike.
C32_GetIsCacheOnly ==
  dir.op = "get" => dir.transportCalls = 0

\* C33: every Contact that normalize produces and every cache entry has a
\* defined id that is not a LID and has no device suffix, and every cache
\* key is the id of the Contact under it.
C33_ContactIdIsStable ==
  /\ \A k \in CacheKeys :
       cache[k].present =>
         /\ cache[k].id = k
         /\ Defined(k) /\ ~IsLid(k) /\ ~k.device
  /\ (dir.op \in {"messages.upsert", "contacts.update"}
        /\ dir.contact.present) =>
       /\ Defined(dir.contact.id)
       /\ ~IsLid(dir.contact.id) /\ ~dir.contact.id.device

\* C34: getPnForLid of a device-scoped id that the transport cannot map
\* fails with NotFound; it does not complete with an undefined id.
C34_UnmappedLidIsNotFound ==
  (dir.op = "getPnForLid" /\ IsLid(dir.arg) /\ dir.fresh = 0) =>
    dir.result = "NotFound"

\* C35: after a contacts.update entry marked 'changed' for a contact that is
\* in the cache, the cached Contact holds the freshly resolved data.
C35_ChangedContactIsRefreshed ==
  (dir.op = "contacts.update" /\ dir.result = "changed" /\ dir.wasCached) =>
    cache[dir.contact.id].data = dir.fresh

\* C36: once disconnect() has been called, no connection opens (status
\* 'connected') until the application calls connect() again, also when an
\* automatic reconnect was in progress at the time of the call.
C36_NoOpenAfterDisconnect ==
  [][\A k \in Conns :
       (connPc[k] = "live" /\ connPc'[k] = "open" /\ status' = CONNECTED) =>
         ~(manualDisconnect /\ ~staleManual)]_vars

\* the application's latest connect() call
LastUserConnect ==
  CHOOSE k \in Conns :
    /\ connCause[k][1] = "user"
    /\ \A j \in Conns : connCause[j][1] = "user" => j <= k

\* C37: after disconnect() and a fresh connect(), with no disconnect() since,
\* a close handled before the new connection opens is classified by its
\* status code (logged_out with purge, pairing_failed, connection_error),
\* not as manual_disconnect.
C37_StaleFlagNotManual ==
  staleManual =>
    \A k \in Handled :
      (k >= LastUserConnect /\ closeRec[k].code # RestartRequired) =>
        /\ closeRec[k].statusType = Classify(closeRec[k].code, FALSE)
        /\ closeRec[k].code = LoggedOut => closeRec[k].purge

\* C38: when the open handler emits connected and status_change, no
\* disconnected event of that connection has been emitted and the status
\* is 'connected', also when a close is handled while the handler awaits
\* the self-contact.
C38_ConnectedBeforeDisconnected ==
  [][\A k \in Conns :
       (openPc[k] # "done" /\ openPc'[k] = "done") =>
         /\ closeRec[k].pc = "none"
         /\ status = CONNECTED]_vars

\* the events published for envelope e
EventsFor(e) == {i \in 1..Len(msgEvents) : msgEvents[i].env = e}

C40_SendsOnlyConnected ==
  /\ send.issued => send.statusAtSend = CONNECTED
  /\ (send.pc = "done" /\ send.lookup \in {"not_exists", "undefined"}) =>
       /\ ~send.issued
       /\ send.returned \in {"lookup_result", "error"}

====
